---- MODULE Spec2Model ----
(***************************************************************************)
(* Model of scripts/notebooklm_add_urls.py: one run of main(), which reads *)
(* a request from stdin, resolves a notebook (get by id, search by title,  *)
(* create), submits every URL sequentially (phase 1), waits for the added  *)
(* sources (phase 2), and writes a JSON report to stdout.                  *)
(*                                                                         *)
(* Strings the program inspects (titles, ids) are sequences of characters; *)
(* strings it only concatenates (urls, messages) are sequences of          *)
(* fragments, and an f-string is the concatenation of its fragments.       *)
(* The remote client is the environment: every remote call resolves to one *)
(* of the outcomes the client library can produce (a value or a raised     *)
(* Exception), chosen when the call resolves.                              *)
(***************************************************************************)
EXTENDS Integers, Sequences, FiniteSets, TLC

VARIABLES pc, stdin, notebook_target, urls, session, calls, results, inflight,
          notebooks,
          notebook_id, notebook_title, i, added_source_ids, failed, exc,
          stdout, exit_code

vars == <<pc, stdin, notebook_target, urls, session, calls, results, inflight,
          notebooks,
          notebook_id, notebook_title, i, added_source_ids, failed, exc,
          stdout, exit_code>>

(* ---------------------------- bounds ---------------------------------- *)
MaxUrls == 2
MaxTitleLen == 1
MaxNotebooks == 2

(* ------------------------- value universes ---------------------------- *)
Chars == {"a", "A", "b"}

Upper == [a |-> "A", b |-> "B"]

SeqsUpTo(S, n) == UNION {[1..k -> S] : k \in 0..n}

Titles == SeqsUpTo(Chars, MaxTitleLen) \ {<<>>}

UrlPool == {"https://a.com", "https://b.com"}

UrlLists == SeqsUpTo(UrlPool, MaxUrls)

SourceIdPool == {<<"s", "1">>, <<"s", "2">>}

IdChars == <<"w", "x", "y", "z", "v">>

NbIdAt(k) == <<"n", IdChars[k]>>

Msgs == {<<"quota">>, <<"bad gateway">>}

FatalMsg == <<"boom">>

CloseMsg == <<"close failed">>

(* what notebooks.list() can return: the k-th notebook has the k-th id *)
Listings ==
    UNION {{[j \in 1..k |-> [id |-> NbIdAt(j), title |-> ts[j]]] :
               ts \in [1..k -> Titles]} : k \in 0..MaxNotebooks}

(* timeout: float = 120.0 *)
DefaultTimeout == 120

(* ----------------------- exceptions (conftest.py) --------------------- *)
ExcTypes == {"RPCError", "SourceAddError", "RateLimitError", "TimeoutError",
             "Exception"}

NoExc == [type |-> "none", msg |-> <<>>]

Raised(t, m) == [type |-> t, msg |-> m]

(* --------------------------- str.lower() ------------------------------ *)
LowerChar(c) ==
    IF \E l \in DOMAIN Upper : Upper[l] = c
    THEN CHOOSE l \in DOMAIN Upper : Upper[l] = c
    ELSE c

Lower(s) == [k \in DOMAIN s |-> LowerChar(s[k])]

(* for nb in notebooks: if nb.title.lower() == target_lower: return nb     *)
(* 0 when the loop falls through without a match.                          *)
RECURSIVE SearchFrom(_, _, _)
SearchFrom(nbs, target_lower, k) ==
    IF k > Len(nbs) THEN 0
    ELSE IF Lower(nbs[k].title) = target_lower THEN k
    ELSE SearchFrom(nbs, target_lower, k + 1)

(* variant: the titles are compared without lowercasing                   *)
FindByTitle_CaseSensitive(nbs, target) ==
    IF \E k \in 1..Len(nbs) : nbs[k].title = target
    THEN CHOOSE k \in 1..Len(nbs) :
            /\ nbs[k].title = target
            /\ \A j \in 1..(k - 1) : nbs[j].title # target
    ELSE 0

FindByTitle(nbs, target) == SearchFrom(nbs, Lower(target), 1)

(* ------------------------------ reports ------------------------------- *)
(* variant: the error strings come out in the reverse order               *)
FormatErrors_Reversed(fl) ==
    [k \in DOMAIN fl |->
        <<fl[Len(fl) + 1 - k][1], ": ">> \o fl[Len(fl) + 1 - k][2]]

(* error_messages = [f"{url}: {error}" for url, error in failed]          *)
FormatErrors(fl) == [k \in DOMAIN fl |-> <<fl[k][1], ": ">> \o fl[k][2]]

Result(nid, ntitle, added, fl) ==
    [notebook_id |-> nid, notebook_title |-> ntitle,
     added |-> Len(added), failed |-> Len(fl), errors |-> FormatErrors(fl)]

(* variant: the message is reported without the "Script error: " prefix   *)
ErrorResult_NoPrefix(e) ==
    [notebook_id |-> <<>>, notebook_title |-> <<>>, added |-> 0, failed |-> 0,
     errors |-> <<e.msg>>]

ErrorResult(e) ==
    [notebook_id |-> <<>>, notebook_title |-> <<>>, added |-> 0, failed |-> 0,
     errors |-> << <<"Script error: ">> \o e.msg >>]

(* ------------------------------- Init --------------------------------- *)
Request(ok, hn, hu, t, us) ==
    [json_ok |-> ok, has_notebook |-> hn, has_urls |-> hu,
     notebook |-> t, urls |-> us]

MalformedRequests == {Request(FALSE, FALSE, FALSE, <<>>, <<>>)}

IncompleteRequests ==
    {Request(TRUE, f[1], f[2], <<"a">>, <<>>) :
        f \in {<<FALSE, FALSE>>, <<FALSE, TRUE>>, <<TRUE, FALSE>>}}

ValidRequests ==
    {Request(TRUE, TRUE, TRUE, t, us) : t \in Titles, us \in UrlLists}

Requests == MalformedRequests \cup IncompleteRequests \cup ValidRequests

Init ==
    /\ pc = "start"
    /\ stdin \in Requests
    /\ notebook_target = <<>>
    /\ urls = <<>>
    /\ session = "none"
    /\ calls = <<>>
    /\ results = <<>>
    /\ inflight = {}
    /\ notebooks = <<>>
    /\ notebook_id = <<>>
    /\ notebook_title = <<>>
    /\ i = 1
    /\ added_source_ids = <<>>
    /\ failed = <<>>
    /\ exc = NoExc
    /\ stdout = <<>>
    /\ exit_code = -1

(* ------------------------ remote calls (log) -------------------------- *)
Call(op, nb, arg, ids, w, t) ==
    [op |-> op, nb |-> nb, arg |-> arg, ids |-> ids, wait |-> w, timeout |-> t]

GetCall(target) == Call("get", <<>>, target, <<>>, FALSE, 0)

ListCall == Call("list", <<>>, <<>>, <<>>, FALSE, 0)

(* variant: the notebook is created under the lowercased target           *)
CreateCall_Lowered(title) ==
    [op |-> "create", nb |-> <<>>, arg |-> Lower(title), ids |-> <<>>,
     wait |-> FALSE, timeout |-> 0]

CreateCall(title) == Call("create", <<>>, title, <<>>, FALSE, 0)

(* variant: the url is submitted against the target string, not the id    *)
AddUrlCall_Target(nid, url) ==
    [op |-> "add_url", nb |-> notebook_target, arg |-> <<url>>, ids |-> <<>>,
     wait |-> FALSE, timeout |-> 0]

AddUrlCall(nid, url) == Call("add_url", nid, <<url>>, <<>>, FALSE, 0)

WaitCall(nid, ids, t) == Call("wait_for_sources", nid, <<>>, ids, FALSE, t)

Res(op, type, val) == [op |-> op, type |-> type, val |-> val]

(* ------------------------------ main ---------------------------------- *)
(* variant: a request without "urls" is taken as one with no urls        *)
InputError_UrlsOptional(req) ==
    IF ~req.json_ok THEN [type |-> "Exception", msg |-> <<"JSONDecodeError">>]
    ELSE IF ~req.has_notebook
    THEN [type |-> "Exception", msg |-> <<"'notebook'">>]
    ELSE [type |-> "none", msg |-> <<>>]

(* what reading the request raises: JSONDecodeError from json.load, then  *)
(* KeyError from input_data["notebook"], then from input_data["urls"]     *)
InputError(req) ==
    IF ~req.json_ok THEN Raised("Exception", <<"JSONDecodeError">>)
    ELSE IF ~req.has_notebook THEN Raised("Exception", <<"'notebook'">>)
    ELSE IF ~req.has_urls THEN Raised("Exception", <<"'urls'">>)
    ELSE NoExc

(* input_data = json.load(sys.stdin); input_data["notebook"]; ["urls"]    *)
ReadInput ==
    /\ pc = "start"
    /\ LET e == InputError(stdin) IN
       /\ exc' = e
       /\ pc' = IF e = NoExc THEN "acquire" ELSE "except"
       /\ notebook_target' = IF stdin.json_ok /\ stdin.has_notebook
                             THEN stdin.notebook ELSE notebook_target
       /\ urls' = IF e = NoExc THEN stdin.urls ELSE urls
    /\ UNCHANGED <<stdin, notebooks, session, calls, results, inflight,
                   notebook_id, notebook_title, i, added_source_ids, failed,
                   stdout, exit_code>>

(* async with await NotebookLMClient.from_storage() as client:            *)
AcquireSession ==
    /\ pc = "acquire"
    /\ \/ /\ session' = "acquired"
          /\ pc' = "get"
          /\ UNCHANGED exc
       \/ /\ exc' = Raised("Exception", FatalMsg)
          /\ pc' = "except"
          /\ UNCHANGED session
    /\ UNCHANGED <<stdin, notebooks, notebook_target, urls, calls, results,
                   inflight, notebook_id, notebook_title, i, added_source_ids,
                   failed, stdout, exit_code>>

(* ------------------------- resolve_notebook --------------------------- *)
GetResults(target) ==
    {[id |-> d, title |-> t] : d \in {target, NbIdAt(1)}, t \in Titles}

(* variant: a successful get() still falls through to the title search    *)
AfterGet_FallsThrough(type) ==
    IF type \in {"ok", "RPCError"} THEN "list" ELSE "release"

(* variant: the client is used without the async with block, so a failure *)
(* goes straight to the outer except clause                               *)
AfterGet_NoRelease(type) ==
    IF type = "ok" THEN "resolved"
    ELSE IF type = "RPCError" THEN "list"
    ELSE "except"

(* variant: any failure of get() triggers the fallback (bare except)      *)
AfterGet_CatchAll(type) ==
    IF type = "ok" THEN "resolved" ELSE "list"

(* where resolve_notebook continues after get(): return on success, fall *)
(* back to the title search on RPCError, propagate anything else          *)
AfterGet(type) ==
    IF type = "ok" THEN "resolved"
    ELSE IF type = "RPCError" THEN "list"
    ELSE "release"

(* try: notebook = await client.notebooks.get(target) except RPCError     *)
GetById ==
    /\ pc = "get"
    /\ calls' = Append(calls, GetCall(notebook_target))
    /\ \/ \E nb \in GetResults(notebook_target) :
             /\ results' = Append(results, Res("get", "ok", nb))
             /\ notebook_id' = nb.id
             /\ notebook_title' = nb.title
             /\ pc' = AfterGet("ok")
             /\ UNCHANGED exc
       \/ \E t \in ExcTypes :
             /\ results' = Append(results, Res("get", t, FatalMsg))
             /\ pc' = AfterGet(t)
             /\ exc' = IF AfterGet(t) = "release"
                       THEN Raised(t, FatalMsg) ELSE exc
             /\ UNCHANGED <<notebook_id, notebook_title>>
    /\ UNCHANGED <<stdin, notebook_target, urls, session, inflight, notebooks,
                   i, added_source_ids, failed, stdout, exit_code>>

(* notebooks = await client.notebooks.list(); then the title search       *)
ListAndSearch ==
    /\ pc = "list"
    /\ calls' = Append(calls, ListCall)
    /\ \/ \E listed \in Listings :
             /\ results' = Append(results, Res("list", "ok", <<>>))
             /\ notebooks' = listed
             /\ LET k == FindByTitle(listed, notebook_target) IN
                IF k # 0
                THEN /\ notebook_id' = listed[k].id
                     /\ notebook_title' = listed[k].title
                     /\ pc' = "resolved"
                ELSE /\ pc' = "create"
                     /\ UNCHANGED <<notebook_id, notebook_title>>
             /\ UNCHANGED exc
       \/ \E t \in {"RPCError", "Exception"} :
             /\ results' = Append(results, Res("list", t, FatalMsg))
             /\ pc' = "release"
             /\ exc' = Raised(t, FatalMsg)
             /\ UNCHANGED <<notebook_id, notebook_title, notebooks>>
    /\ UNCHANGED <<stdin, notebook_target, urls, session, inflight, i,
                   added_source_ids, failed, stdout, exit_code>>

CreateResults == {[id |-> NbIdAt(MaxNotebooks + 1), title |-> t] : t \in Titles}

(* notebook = await client.notebooks.create(title=target)                 *)
CreateNotebook ==
    /\ pc = "create"
    /\ calls' = Append(calls, CreateCall(notebook_target))
    /\ \/ \E nb \in CreateResults :
             /\ results' = Append(results, Res("create", "ok", nb))
             /\ notebook_id' = nb.id
             /\ notebook_title' = nb.title
             /\ pc' = "resolved"
             /\ UNCHANGED <<exc, notebooks>>
       \/ \E t \in {"RPCError", "Exception"} :
             /\ results' = Append(results, Res("create", t, FatalMsg))
             /\ pc' = "release"
             /\ exc' = Raised(t, FatalMsg)
             /\ notebooks' = <<>>
             /\ UNCHANGED <<notebook_id, notebook_title>>
    /\ UNCHANGED <<stdin, notebook_target, urls, session, inflight, i,
                   added_source_ids, failed, stdout, exit_code>>

(* resolve_notebook returns: main binds notebook_id, notebook_title and   *)
(* the locals of resolve_notebook go out of scope                         *)
ResolveReturn ==
    /\ pc = "resolved"
    /\ notebooks' = <<>>
    /\ pc' = "p1_loop"
    /\ UNCHANGED <<stdin, notebook_target, urls, session, calls, results,
                   inflight, notebook_id, notebook_title, i, added_source_ids,
                   failed, exc, stdout, exit_code>>

(* ------------------------- add_urls_phase1 ---------------------------- *)
SubmitExcTypes == {"SourceAddError", "RateLimitError", "Exception"}

(* variant: an unexpected exception is recorded like a recognised one     *)
FailureEntry_Unprefixed(url, e) == <<url, e.msg>>

(* except (SourceAddError, RateLimitError) as e / except Exception as e   *)
FailureEntry(url, e) ==
    IF e.type \in {"SourceAddError", "RateLimitError"}
    THEN <<url, e.msg>>
    ELSE <<url, <<"Unexpected error: ">> \o e.msg>>

(* variant: an unexpected exception is swallowed without being recorded   *)
RecordFailure_Swallow(fl, url, e) ==
    IF e.type \in {"SourceAddError", "RateLimitError"}
    THEN Append(fl, FailureEntry(url, e))
    ELSE fl

(* failed.append(...) in either except clause                             *)
RecordFailure(fl, url, e) == Append(fl, FailureEntry(url, e))

(* variant: a new source id is put in front of the earlier ones           *)
RecordSuccess_Prepend(added, sid) == <<sid>> \o added

(* added_source_ids.append(source.id)                                     *)
RecordSuccess(added, sid) == Append(added, sid)

(* variant: a failed submission breaks out of the loop                    *)
NextIndex_BreakOnFailure(idx, n, type) ==
    IF type = "ok" THEN idx + 1 ELSE n + 1

(* the for loop moves to the next url whatever the outcome of this one    *)
NextIndex(idx, n, type) == idx + 1

(* variant: the next call is started while the previous one is pending    *)
IssuePoint_NoAwait(p) == p \in {"p1_loop", "p1_await"}

(* await: an iteration starts only when the previous call has resolved    *)
IssuePoint(p) == p = "p1_loop"

(* for url in urls: source = await client.sources.add_url(...) is issued  *)
SubmitIssue ==
    /\ IssuePoint(pc)
    /\ i <= Len(urls)
    /\ calls' = Append(calls, AddUrlCall(notebook_id, urls[i]))
    /\ inflight' = inflight \cup {Len(calls) + 1}
    /\ pc' = "p1_await"
    /\ UNCHANGED <<stdin, notebooks, notebook_target, urls, session, results,
                   notebook_id, notebook_title, i, added_source_ids, failed,
                   exc, stdout, exit_code>>

(* the awaited add_url resolves: append to added_source_ids or to failed  *)
SubmitResolve ==
    /\ pc = "p1_await"
    /\ \E c \in inflight :
         /\ calls[c].op = "add_url"
         /\ inflight' = inflight \ {c}
         /\ \/ \E sid \in SourceIdPool :
                  /\ results' = Append(results, Res("add_url", "ok", sid))
                  /\ added_source_ids' = RecordSuccess(added_source_ids, sid)
                  /\ i' = NextIndex(i, Len(urls), "ok")
                  /\ UNCHANGED failed
            \/ \E t \in SubmitExcTypes, m \in Msgs :
                  /\ results' = Append(results, Res("add_url", t, m))
                  /\ failed' = RecordFailure(failed, calls[c].arg[1],
                                             Raised(t, m))
                  /\ i' = NextIndex(i, Len(urls), t)
                  /\ UNCHANGED added_source_ids
    /\ pc' = "p1_loop"
    /\ UNCHANGED <<stdin, notebooks, notebook_target, urls, session, calls,
                   notebook_id, notebook_title, exc, stdout, exit_code>>

(* the loop is exhausted: return added_source_ids, failed                 *)
Phase1Return ==
    /\ pc = "p1_loop"
    /\ i > Len(urls)
    /\ pc' = "p2"
    /\ UNCHANGED <<stdin, notebook_target, urls, session, calls, results,
                   notebooks, inflight, notebook_id, notebook_title, i,
                   added_source_ids, failed, exc, stdout, exit_code>>

(* --------------------- wait_for_sources_phase2 ------------------------ *)
(* variant: the empty case is not short-circuited                         *)
NoSources_Never(ids) == FALSE

(* if not source_ids                                                      *)
NoSources(ids) == ids = <<>>

(* if not source_ids: return                                              *)
WaitSkip ==
    /\ pc = "p2"
    /\ NoSources(added_source_ids)
    /\ pc' = "report"
    /\ UNCHANGED <<stdin, notebook_target, urls, session, calls, results,
                   notebooks, inflight, notebook_id, notebook_title, i,
                   added_source_ids, failed, exc, stdout, exit_code>>

(* await client.sources.wait_for_sources(notebook_id, source_ids, timeout) *)
WaitIssue ==
    /\ pc = "p2"
    /\ ~NoSources(added_source_ids)
    /\ calls' = Append(calls,
                       WaitCall(notebook_id, added_source_ids, DefaultTimeout))
    /\ inflight' = inflight \cup {Len(calls) + 1}
    /\ pc' = "p2_await"
    /\ UNCHANGED <<stdin, notebooks, notebook_target, urls, session, results,
                   notebook_id, notebook_title, i, added_source_ids, failed,
                   exc, stdout, exit_code>>

WaitExcTypes == {"TimeoutError", "Exception"}

(* variant: every exception of the wait is swallowed (except Exception)   *)
AfterWait_SwallowAll(type) == "report"

(* where main continues after the wait: on to the report when it returned *)
(* or raised TimeoutError, out of the async with block otherwise          *)
AfterWait(type) ==
    IF type \in {"ok", "TimeoutError"} THEN "report" ELSE "release"

(* except TimeoutError: pass; anything else propagates                    *)
WaitResolve ==
    /\ pc = "p2_await"
    /\ \E c \in inflight :
         /\ calls[c].op = "wait_for_sources"
         /\ inflight' = inflight \ {c}
    /\ \/ /\ results' = Append(results, Res("wait_for_sources", "ok", <<>>))
          /\ pc' = AfterWait("ok")
          /\ UNCHANGED exc
       \/ \E t \in WaitExcTypes :
             /\ results' = Append(results, Res("wait_for_sources", t, FatalMsg))
             /\ pc' = AfterWait(t)
             /\ exc' = IF AfterWait(t) = "release"
                       THEN Raised(t, FatalMsg) ELSE exc
    /\ UNCHANGED <<stdin, notebooks, notebook_target, urls, session, calls,
                   notebook_id, notebook_title, i, added_source_ids, failed,
                   stdout, exit_code>>

(* ----------------------- main: report and exit ------------------------ *)
(* json.dump(result, sys.stdout) inside the async with block              *)
WriteReport ==
    /\ pc = "report"
    /\ stdout' = Append(stdout, Result(notebook_id, notebook_title,
                                       added_source_ids, failed))
    /\ pc' = "release"
    /\ UNCHANGED <<stdin, notebook_target, urls, session, calls, results,
                   notebooks, inflight, notebook_id, notebook_title, i,
                   added_source_ids, failed, exc, exit_code>>

(* leaving the async with block: client.__aexit__ runs, with the pending  *)
(* exception if there is one; it returns (not suppressing) or raises      *)
ReleaseSession ==
    /\ pc = "release"
    /\ session = "acquired"
    /\ \/ /\ session' = "released"
          /\ IF exc = NoExc
             THEN pc' = "done" /\ exit_code' = 0
             ELSE pc' = "except" /\ UNCHANGED exit_code
          /\ UNCHANGED exc
       \/ /\ session' = "release_failed"
          /\ exc' = Raised("Exception", CloseMsg)
          /\ pc' = "except"
          /\ UNCHANGED exit_code
    /\ UNCHANGED <<stdin, notebooks, notebook_target, urls, calls, results,
                   inflight, notebook_id, notebook_title, i, added_source_ids,
                   failed, stdout>>

(* except Exception as e: json.dump(error_result, sys.stdout); sys.exit(1) *)
HandleFatal ==
    /\ pc = "except"
    /\ stdout' = Append(stdout, ErrorResult(exc))
    /\ exit_code' = 1
    /\ pc' = "done"
    /\ UNCHANGED <<stdin, notebook_target, urls, session, calls, results,
                   notebooks, inflight, notebook_id, notebook_title, i,
                   added_source_ids, failed, exc>>

Next ==
    \/ ReadInput
    \/ AcquireSession
    \/ GetById
    \/ ListAndSearch
    \/ CreateNotebook
    \/ ResolveReturn
    \/ SubmitIssue
    \/ SubmitResolve
    \/ Phase1Return
    \/ WaitSkip
    \/ WaitIssue
    \/ WaitResolve
    \/ WriteReport
    \/ ReleaseSession
    \/ HandleFatal

Spec == Init /\ [][Next]_vars

(* ======================= properties of a run ========================== *)
CallsOf(op) == SelectSeq(calls, LAMBDA c : c.op = op)

ResultsOf(op) == SelectSeq(results, LAMBDA r : r.op = op)

(* add_urls_phase1 has returned and main has not yet written its report  *)
Phase1Returned == pc \in {"p2", "p2_await", "report"}

(* C1: every finished run has written exactly one report to stdout        *)
ExactlyOneReport == pc = "done" => Len(stdout) = 1

(* C2: when add_urls_phase1 returns, the two result lists together have   *)
(* one entry per input url                                                *)
PartitionTotal ==
    Phase1Returned => Len(added_source_ids) + Len(failed) = Len(urls)

PartitionWitness ==
    /\ pc = "p2"
    /\ Len(urls) = 2
    /\ Len(added_source_ids) = 1
    /\ Len(failed) = 1
    /\ \E k \in 1..Len(results) :
          results[k].op = "add_url" /\ results[k].type = "Exception"

(* C3: when add_urls_phase1 returns, add_url has been called exactly once *)
(* for every input url, whatever the earlier outcomes were                *)
EveryUrlSubmittedOnce ==
    Phase1Returned =>
        LET issued == CallsOf("add_url") IN
        /\ Len(issued) = Len(urls)
        /\ \A k \in 1..Len(urls) : issued[k].arg = <<urls[k]>>

EveryUrlSubmittedWitness ==
    /\ pc = "p2"
    /\ Len(urls) = 2
    /\ Len(failed) = 2
    /\ Len(CallsOf("add_url")) = 2

(* C4: at most one submission is in flight, and the calls issued so far   *)
(* are those for a prefix of urls, the last one issued only after all the *)
(* earlier ones resolved                                                  *)
SequentialSubmissions ==
    LET issued == CallsOf("add_url")
        resolved == ResultsOf("add_url") IN
    /\ Cardinality(inflight) <= 1
    /\ Len(issued) <= Len(urls)
    /\ \A k \in 1..Len(issued) : issued[k].arg = <<urls[k]>>
    /\ Len(resolved) <= Len(issued)
    /\ Len(issued) <= Len(resolved) + 1

SequentialWitness ==
    /\ pc = "p1_await"
    /\ Len(CallsOf("add_url")) = 2
    /\ Len(ResultsOf("add_url")) = 1
    /\ Cardinality(inflight) = 1

(* C5: resolve_notebook calls get, then list, then create, in that order  *)
(* and each at most once; a successful get is followed by neither list    *)
(* nor create, and a title match by no create                             *)
ResolveOps ==
    LET rc == SelectSeq(calls, LAMBDA c : c.op \in {"get", "list", "create"})
    IN [k \in 1..Len(rc) |-> rc[k].op]

TitleMatches(nb) == Lower(nb.title) = Lower(notebook_target)

ListingHasMatch == \E k \in 1..Len(notebooks) : TitleMatches(notebooks[k])

ResolutionOrder ==
    /\ ResolveOps \in {<<>>, <<"get">>, <<"get", "list">>,
                        <<"get", "list", "create">>}
    /\ pc = "resolved" => Len(ResolveOps) >= 1
    /\ (Len(results) >= 1 /\ results[1].type = "ok") => ResolveOps = <<"get">>
    /\ (pc = "resolved" /\ ListingHasMatch) => ResolveOps = <<"get", "list">>

ResolutionOrderWitness ==
    /\ pc = "resolved"
    /\ ListingHasMatch
    /\ Len(notebooks) = 2
    /\ ResolveOps = <<"get", "list">>

(* C6: after get() signalled RPCError, a listing that holds a title equal *)
(* to the target after lowercasing both makes resolve_notebook return the *)
(* id and the stored title of the first such notebook, without a create   *)
FirstMatchReturned ==
    (pc = "resolved" /\ results[1].type = "RPCError" /\ ListingHasMatch) =>
        LET k == CHOOSE k \in 1..Len(notebooks) :
                    /\ TitleMatches(notebooks[k])
                    /\ \A j \in 1..(k - 1) : ~TitleMatches(notebooks[j])
        IN /\ notebook_id = notebooks[k].id
           /\ notebook_title = notebooks[k].title
           /\ CallsOf("create") = <<>>

FirstMatchWitness ==
    /\ pc = "resolved"
    /\ results[1].type = "RPCError"
    /\ Len(notebooks) = 2
    /\ TitleMatches(notebooks[1])
    /\ TitleMatches(notebooks[2])
    /\ notebooks[1].title # notebooks[2].title
    /\ notebook_title # notebook_target

(* C7: create is called at most once and with the target verbatim; when   *)
(* resolve_notebook returns, create was called exactly if get() signalled *)
(* RPCError and no listed title matches, and then the identity returned   *)
(* is the one create() returned                                           *)
CreateOnlyWhenNeeded ==
    LET created == CallsOf("create") IN
    /\ Len(created) <= 1
    /\ \A k \in 1..Len(created) : created[k].arg = notebook_target
    /\ Len(created) = 1 =>
          /\ Len(results) >= 2
          /\ results[1].op = "get" /\ results[1].type = "RPCError"
          /\ results[2].op = "list" /\ results[2].type = "ok"
    /\ pc = "resolved" =>
          (Len(created) = 1 <=>
             (results[1].type = "RPCError" /\ ~ListingHasMatch))
    /\ (pc = "resolved" /\ Len(created) = 1) =>
          /\ results[3].op = "create"
          /\ [id |-> notebook_id, title |-> notebook_title] = results[3].val

CreateWitness ==
    /\ pc = "resolved"
    /\ Len(CallsOf("create")) = 1
    /\ Len(notebooks) = 2
    /\ notebook_target = <<"A">>
    /\ notebook_title # notebook_target

(* C8: the wait is called at most once, after every url's submission has *)
(* been issued and has resolved, over exactly the ids the successful      *)
(* submissions returned, in that order, with a timeout of 120 seconds     *)
OkSourceIds ==
    LET ok == SelectSeq(results,
                        LAMBDA r : r.op = "add_url" /\ r.type = "ok")
    IN [k \in 1..Len(ok) |-> ok[k].val]

WaitOnceOverAddedIds ==
    LET waits == CallsOf("wait_for_sources") IN
    /\ Len(waits) <= 1
    /\ Len(waits) = 1 =>
          /\ calls[Len(calls)].op = "wait_for_sources"
          /\ Len(CallsOf("add_url")) = Len(urls)
          /\ Len(ResultsOf("add_url")) = Len(urls)
          /\ \A c \in inflight : calls[c].op = "wait_for_sources"
          /\ waits[1].ids = OkSourceIds
          /\ waits[1].timeout = 120

WaitOnceWitness ==
    /\ pc = "p2_await"
    /\ Len(urls) = 2
    /\ Len(failed) = 1
    /\ Len(CallsOf("wait_for_sources")) = 1
    /\ Len(CallsOf("wait_for_sources")[1].ids) = 1

(* C9: while no source id has been added, the remote wait is never called *)
(* in particular wait_for_sources_phase2 returns without calling it       *)
EmptyWaitSkipped ==
    added_source_ids = <<>> => CallsOf("wait_for_sources") = <<>>

EmptyWaitWitness ==
    /\ pc = "report"
    /\ Len(urls) = 2
    /\ Len(failed) = 2
    /\ added_source_ids = <<>>

(* C10: a run whose remote wait raised TimeoutError ends with the normal  *)
(* report as its only output and with exit status 0                       *)
WaitTimedOut ==
    \E k \in 1..Len(results) :
        results[k].op = "wait_for_sources" /\ results[k].type = "TimeoutError"

TimeoutSuppressed ==
    (pc = "done" /\ WaitTimedOut) =>
        /\ stdout = <<Result(notebook_id, notebook_title,
                             added_source_ids, failed)>>
        /\ exit_code = 0

(* the all-empty report of the outer except clause                        *)
IsDegenerate(report) ==
    /\ report.notebook_id = <<>>
    /\ report.notebook_title = <<>>
    /\ report.added = 0
    /\ report.failed = 0
    /\ Len(report.errors) = 1
    /\ report.errors[1][1] = "Script error: "

(* C11: once the remote wait raised anything but TimeoutError, no normal  *)
(* report is written, and the run ends with the degenerate report as its  *)
(* only output and exit status 1                                          *)
WaitFailed ==
    \E k \in 1..Len(results) :
        /\ results[k].op = "wait_for_sources"
        /\ results[k].type \notin {"ok", "TimeoutError"}

WaitFailurePropagates ==
    /\ WaitFailed =>
          /\ pc \in {"release", "except", "done"}
          /\ exc # NoExc
          /\ \A k \in 1..Len(stdout) : IsDegenerate(stdout[k])
    /\ (pc = "done" /\ WaitFailed) =>
          /\ Len(stdout) = 1
          /\ IsDegenerate(stdout[1])
          /\ exit_code = 1

WaitFailureWitness ==
    /\ pc = "done"
    /\ WaitFailed
    /\ Len(added_source_ids) = 1
    /\ Len(failed) = 1
    /\ session = "released"

NormalWritten == \E k \in 1..Len(stdout) : ~IsDegenerate(stdout[k])

(* C12: a finished run has exit status 0 exactly if it wrote a normal     *)
(* report, and exit status 1 otherwise                                    *)
ExitStatusMatchesReport ==
    pc = "done" =>
        /\ exit_code \in {0, 1}
        /\ exit_code = 0 <=> NormalWritten

(* C13: no run ends with the session still held (leaving the async with   *)
(* block has run the client's release on every path), and the session is  *)
(* acquired only from the state in which none was ever acquired           *)
SessionAlwaysReleased ==
    /\ [](pc = "done" => session # "acquired")
    /\ [][(session' = "acquired" /\ session # "acquired")
            => session = "none"]_vars

SessionReleasedWitness ==
    /\ pc = "done"
    /\ session = "released"
    /\ Len(results) = 1
    /\ results[1].type = "Exception"
    /\ exit_code = 1

(* C14: a run that met a fatal error (bad input, no session, a failure of *)
(* the resolution other than get()'s RPCError, a failure of the wait      *)
(* other than TimeoutError) ends with exactly one report, the degenerate  *)
(* one with its single "Script error: ..." entry, and exit status 1       *)
InputFatal == ~stdin.json_ok \/ ~stdin.has_notebook \/ ~stdin.has_urls

AcquireFatal == ~InputFatal /\ pc = "done" /\ session = "none"

ResolveFatal ==
    \E k \in 1..Len(results) :
        \/ results[k].op = "get" /\ results[k].type \notin {"ok", "RPCError"}
        \/ results[k].op \in {"list", "create"} /\ results[k].type # "ok"

FatalConvertedOnce ==
    (pc = "done" /\ (InputFatal \/ AcquireFatal \/ ResolveFatal \/ WaitFailed))
        => /\ Len(stdout) = 1
           /\ IsDegenerate(stdout[1])
           /\ exit_code = 1

FatalConvertedWitness ==
    /\ pc = "done"
    /\ stdin.json_ok /\ stdin.has_notebook /\ ~stdin.has_urls
    /\ stdout = << [notebook_id |-> <<>>, notebook_title |-> <<>>,
                    added |-> 0, failed |-> 0,
                    errors |-> << <<"Script error: ", "'urls'">> >>] >>
    /\ exit_code = 1

(* C15: only an RPCError of get() leads to the title search; any other    *)
(* failure of get(), and any failure of list() or create(), ends the      *)
(* resolution with the exception pending and no further resolution call   *)
NoFallbackOnOtherFailures ==
    /\ CallsOf("list") # <<>> => results[1].type = "RPCError"
    /\ \A k \in 1..Len(results) :
          (\/ results[k].op = "get"
                /\ results[k].type \notin {"ok", "RPCError"}
           \/ results[k].op \in {"list", "create"} /\ results[k].type # "ok")
          => /\ k = Len(results)
             /\ Len(calls) = k
             /\ pc \in {"release", "except", "done"}
             /\ exc # NoExc
             /\ notebook_id = <<>>

NoFallbackWitness ==
    /\ pc = "done"
    /\ Len(results) = 2
    /\ results[2].op = "list"
    /\ results[2].type = "RPCError"
    /\ ResolveOps = <<"get", "list">>

(* positions in urls of the submissions that failed / succeeded so far    *)
SubmitIdx(failedOnes) ==
    LET R == ResultsOf("add_url") IN
    SelectSeq([k \in 1..Len(R) |-> k],
              LAMBDA k : (R[k].type # "ok") = failedOnes)

(* C16: a normal report counts the successful and the failed submissions  *)
(* and lists one "url: message" string per failed url in input order; the *)
(* ids given to the wait are those of the successful urls in input order  *)
ReportReflectsOutcomes ==
    LET R == ResultsOf("add_url")
        bad == SubmitIdx(TRUE)
        good == SubmitIdx(FALSE)
        waits == CallsOf("wait_for_sources") IN
    /\ NormalWritten =>
          /\ stdout[1].added = Len(good)
          /\ stdout[1].failed = Len(bad)
          /\ Len(stdout[1].errors) = Len(bad)
          /\ \A j \in 1..Len(bad) :
                LET e == stdout[1].errors[j] IN
                /\ e[1] = urls[bad[j]]
                /\ e[2] = ": "
                /\ SubSeq(e, 3, Len(e)) \in
                      {R[bad[j]].val, <<"Unexpected error: ">> \o R[bad[j]].val}
    /\ waits # <<>> =>
          /\ Len(waits[1].ids) = Len(good)
          /\ \A j \in 1..Len(good) : waits[1].ids[j] = R[good[j]].val

ReportReflectsWitness ==
    /\ pc = "done"
    /\ exit_code = 0
    /\ Len(stdout) = 1
    /\ stdout[1].failed = 2
    /\ urls[1] # urls[2]
    /\ stdout[1].errors[1] # stdout[1].errors[2]

(* C17: each failed submission is recorded, in order, with its url and    *)
(* with the service message unchanged for SourceAddError / RateLimitError *)
(* or prefixed by "Unexpected error: " for any other exception, and no    *)
(* exception is pending while add_urls_phase1 runs or when it returns     *)
FailuresContained ==
    LET R == ResultsOf("add_url")
        bad == SubmitIdx(TRUE) IN
    /\ Len(failed) = Len(bad)
    /\ \A j \in 1..Len(bad) :
          /\ failed[j][1] = urls[bad[j]]
          /\ failed[j][2] =
                IF R[bad[j]].type \in {"SourceAddError", "RateLimitError"}
                THEN R[bad[j]].val
                ELSE <<"Unexpected error: ">> \o R[bad[j]].val
    /\ pc \in {"p1_loop", "p1_await", "p2"} => exc = NoExc
    /\ Len(R) = Len(added_source_ids) + Len(failed)

FailuresContainedWitness ==
    /\ pc = "p2"
    /\ Len(failed) = 2
    /\ ResultsOf("add_url")[1].type = "RateLimitError"
    /\ ResultsOf("add_url")[2].type = "Exception"

(* C18: a run on a valid request with no urls, once its notebook is       *)
(* resolved, calls neither add_url nor the wait and ends with the normal  *)
(* report (resolved id and title, 0 added, 0 failed, no errors) as its    *)
(* only output and exit status 0                                          *)
EmptyUrlsNormalRun ==
    (pc = "done" /\ ~InputFatal /\ stdin.urls = <<>> /\ notebook_id # <<>>)
        => /\ CallsOf("add_url") = <<>>
           /\ CallsOf("wait_for_sources") = <<>>
           /\ stdout = << [notebook_id |-> notebook_id,
                           notebook_title |-> notebook_title,
                           added |-> 0, failed |-> 0, errors |-> <<>>] >>
           /\ exit_code = 0

(* C19: a request that is malformed or lacks a field never gets a session *)
(* or a remote call, and a run whose resolution failed never issues a     *)
(* submission or a wait; no remote call is made without a session, no     *)
(* submission or wait without a resolved notebook                         *)
NoEffectBeforeResolution ==
    /\ InputFatal => (session = "none" /\ calls = <<>>)
    /\ calls # <<>> => session # "none"
    /\ ResolveFatal =>
          (CallsOf("add_url") = <<>> /\ CallsOf("wait_for_sources") = <<>>)
    /\ (CallsOf("add_url") # <<>> \/ CallsOf("wait_for_sources") # <<>>)
          => notebook_id # <<>>

NoEffectWitness ==
    /\ pc = "done"
    /\ stdin.json_ok /\ stdin.has_notebook /\ ~stdin.has_urls
    /\ session = "none"
    /\ calls = <<>>
    /\ exit_code = 1

(* C20: get() is called once per resolution, the identity it or create()  *)
(* returned is the one main holds, it never changes once set, and every   *)
(* submission, the wait and the normal report carry that identity         *)
OneNotebookIdentity ==
    /\ [](/\ Len(CallsOf("get")) <= 1
          /\ notebook_id # <<>> => Len(CallsOf("get")) = 1
          /\ (Len(results) >= 1 /\ results[1].type = "ok") =>
                /\ notebook_id = results[1].val.id
                /\ notebook_title = results[1].val.title
          /\ (Len(results) >= 3 /\ results[3].op = "create"
                /\ results[3].type = "ok") =>
                /\ notebook_id = results[3].val.id
                /\ notebook_title = results[3].val.title
          /\ \A k \in 1..Len(calls) :
                calls[k].op \in {"add_url", "wait_for_sources"} =>
                    (calls[k].nb = notebook_id /\ notebook_id # <<>>)
          /\ NormalWritten =>
                /\ stdout[1].notebook_id = notebook_id
                /\ stdout[1].notebook_title = notebook_title)
    /\ [][notebook_id # <<>> => UNCHANGED <<notebook_id, notebook_title>>]_vars

OneIdentityWitness ==
    /\ pc = "done"
    /\ exit_code = 0
    /\ notebook_id # notebook_target
    /\ Len(CallsOf("add_url")) = 2
    /\ Len(CallsOf("wait_for_sources")) = 1
    /\ stdout[1].notebook_id = notebook_id

====
